---- MODULE Spec2Model ----
(***************************************************************************)
(* Verification model of the multi-source social media analytics platform *)
(*                                                                         *)
(*   app/rate_limiter.py               RateLimiter / APIRateLimiter        *)
(*   src/collectors/base_collector.py  BaseCollector.collect_with_retry    *)
(*   src/collectors/orchestrator.py    DataCollectionOrchestrator          *)
(*   src/storage/data_pipeline.py      DataPipeline                        *)
(*   src/storage/database.py           DataLakeStorage                     *)
(*                                                                         *)
(* Time is counted in whole seconds.                                       *)
(***************************************************************************)
EXTENDS Integers, Sequences, FiniteSets, TLC

VARIABLES
    now,            \* time.time(), in seconds
    ticks,          \* number of clock steps taken by the environment
    limiters,       \* api -> RateLimiter fields (request_times, consecutive_failures)
    sleeping,       \* api -> the wait_if_needed call that holds the lock inside time.sleep
    admitted,       \* api -> times at which wait_if_needed returned (history)
    last_delay,     \* api -> value returned by the last wait_if_needed (-1: none yet)
    hist,           \* api -> history of the record_success / record_failure calls
    callers,        \* the sources whose clients run in this execution
    col,            \* source -> BaseCollector fields and its collect_with_retry call
    collectors,     \* DataCollectionOrchestrator.collectors: the registered names, in order
    collection_config,  \* the argument of collect_all_data
    orch,           \* the collect_all_data call: tasks, results, failed_collectors
    pipeline,       \* DataPipeline fields and its run_collection_pipeline call
    storage,        \* DataLakeStorage: the rows of the three tables
    client          \* a direct call of the validator or the storage, and what it returned

rlVars == <<limiters, sleeping, admitted, last_delay, hist>>
orchVars == <<collectors, collection_config, orch>>
pipeVars == <<pipeline, storage>>
dataVars == <<pipeVars, client>>
appVars == <<col, orchVars, dataVars>>
vars == <<now, ticks, callers, rlVars, appVars>>

(***************************************************************************)
(* Bounds of the model                                                     *)
(***************************************************************************)
MaxCalls == 3       \* wait_if_needed calls, all limiters together
MaxTicks == 2       \* clock steps of the environment
MaxFailures == 2    \* consecutive record_failure calls per limiter
MaxRetries == 3     \* largest max_retries a collector is built with
MaxItems == 2       \* items returned by one collect_data call
MaxCollections == 2 \* collect_with_retry calls per collector
MaxWriteFailures == 1   \* storage writes that raise in one pipeline run
MaxRunItems == 3    \* items collected in one pipeline run, all sources together
MaxStores == 3      \* direct store_bronze_data calls of a client
MaxCleanups == 1    \* cleanup_old_data calls of a client
MaxRuns == 2        \* run_pipeline calls on the module-level pipeline
MaxRows == 3        \* rows of raw_posts when the cleaner starts
MaxLimit == 2       \* largest limit process_raw_data is called with

TickSteps == {1, 60, 3600}

\* the sources the platform knows: a rate limiter and a collector for each
APIs == {"reddit", "news", "twitter"}

(***************************************************************************)
(* Generic helpers                                                         *)
(***************************************************************************)
Max(a, b) == IF a >= b THEN a ELSE b
Min(a, b) == IF a <= b THEN a ELSE b

RECURSIVE Pow(_, _)
Pow(b, e) == IF e = 0 THEN 1 ELSE b * Pow(b, e - 1)

SeqMin(s) == CHOOSE x \in {s[i] : i \in DOMAIN s} : \A j \in DOMAIN s : x <= s[j]

RECURSIVE SeqSum(_)
SeqSum(s) == IF s = <<>> THEN 0 ELSE Head(s) + SeqSum(Tail(s))

(***************************************************************************)
(* src/collectors/base_collector.py                                        *)
(***************************************************************************)
DefaultMaxRetries == 3
RateLimitDelay == 1
None == -1

\* what a source can hand back for one item: "rich" and "poor" items carry
\* the fields validate_data asks for, an "incomplete" item lacks one of them,
\* a "malformed" item passes validate_data and makes transform_data raise
ItemKinds == {"rich", "poor", "incomplete", "malformed"}

RECURSIVE SeqsUpTo(_, _)
SeqsUpTo(S, n) ==
    IF n = 0 THEN {<<>>}
    ELSE LET shorter == SeqsUpTo(S, n - 1)
         IN shorter \cup {Append(q, x) : q \in {r \in shorter : Len(r) = n - 1}, x \in S}

\* the raw items of one collect_data call: the i-th item has external id i
RawData(kinds) == [i \in DOMAIN kinds |-> [id |-> i, kind |-> kinds[i]]]
RawFeeds(kindset) == {RawData(kinds) : kinds \in SeqsUpTo(kindset, MaxItems)}

\* collect_with_retry does not look at what tells a rich item from a poor one
CollectorKinds == ItemKinds \ {"poor"}

\* validate_data of the concrete collectors: all required fields are present
validate_data(data) == data.kind # "incomplete"

\* transform_data of the concrete collectors: a new dict in the standard
\* format, the raw item kept under 'raw_data'
transform_data(data, name) == [id |-> data.id, source |-> name, raw_data |-> data]
TransformRaises(data) == data.kind = "malformed"

\* a loop that builds its list by inserting each item at the front
RECURSIVE ProcessRawDataReversed(_, _)
ProcessRawDataReversed(raw_data, name) ==
    IF raw_data = <<>> THEN <<>>
    ELSE LET item == Head(raw_data)
             rest == ProcessRawDataReversed(Tail(raw_data), name)
         IN IF validate_data(item) THEN rest \o <<transform_data(item, name)>> ELSE rest

\* the validate-and-transform loop of collect_with_retry
RECURSIVE ProcessRawData(_, _)
ProcessRawData(raw_data, name) ==
    IF raw_data = <<>> THEN <<>>
    ELSE LET item == Head(raw_data)
             rest == ProcessRawData(Tail(raw_data), name)
         IN IF validate_data(item) THEN <<transform_data(item, name)>> \o rest ELSE rest

ProcessingRaises(raw_data) ==
    \E i \in DOMAIN raw_data : validate_data(raw_data[i]) /\ TransformRaises(raw_data[i])

NoResult == [kind |-> "pending", items |-> <<>>]

\* no health_check call has returned to the caller of this collector
NoHealth == [status |-> "none", collect_data_calls |-> 0, collect_raised |-> FALSE,
             before |-> <<>>]

\* BaseCollector.__init__, with an idle call frame
NewCollector(name, max_retries) ==
    [name |-> name, max_retries |-> max_retries,
     last_collection |-> None, collection_count |-> 0, error_count |-> 0,
     pc |-> "idle", attempt |-> 0, wake |-> 0, failed_at |-> 0,
     calls |-> 0, only_raises |-> TRUE, sleeps |-> <<>>,
     raw_data |-> <<>>, result |-> NoResult,
     errors_before |-> 0, calls_done |-> 0, health |-> NoHealth]

\* a backoff that grows linearly with the attempt
BackoffSleepLinear(attempt) == 2 * attempt

\* the exponential backoff of collect_with_retry
BackoffSleep(attempt) == Pow(2, attempt)

\* `for attempt in range(self.max_retries)`: the first collect_data call, or,
\* with an empty range, the end of the function (an implicit `return None`)
EnterLoop(c) ==
    IF c.max_retries = 0
    THEN [c EXCEPT !.pc = "returned", !.result = [kind |-> "none", items |-> <<>>]]
    ELSE [c EXCEPT !.pc = "collect_data", !.attempt = 0, !.calls = @ + 1]

\* the `except` clauses of collect_with_retry: re-raise on the last attempt
\* (the outer clause then counts the error), else sleep 2 ** attempt
AttemptFailed(c, t, outcome) ==
    LET d == [c EXCEPT !.only_raises = @ /\ outcome = "raised"]
    IN IF c.attempt = c.max_retries - 1
       THEN [d EXCEPT !.pc = "raised", !.error_count = @ + 1,
                      !.result = [kind |-> "exception", items |-> <<>>]]
       ELSE [d EXCEPT !.pc = "backoff", !.failed_at = t,
                      !.wake = t + BackoffSleep(c.attempt),
                      !.sleeps = Append(@, BackoffSleep(c.attempt))]

\* collect_with_retry is called at time t: the rate_limit_delay check, then
\* the loop
StartCall(c0, t) ==
    LET c == [c0 EXCEPT !.errors_before = c0.error_count]
        time_since_last == t - c.last_collection
    IN IF c.last_collection # None /\ time_since_last < RateLimitDelay
       THEN [c EXCEPT !.pc = "rate_limit_sleep",
                      !.wake = t + (RateLimitDelay - time_since_last)]
       ELSE EnterLoop(c)

\* asyncio.sleep(rate_limit_delay - time_since_last) is over
AfterRateLimitSleep(c) == EnterLoop([c EXCEPT !.wake = 0])

\* collect_data returned raw_data at time t: validate, transform, update the
\* state and return; an exception of transform_data is handled like one of
\* collect_data
AttemptReturned(c0, t, raw_data) ==
    LET c == [c0 EXCEPT !.raw_data = raw_data]
    IN IF ProcessingRaises(raw_data)
       THEN AttemptFailed(c, t, "processing_raised")
       ELSE [c EXCEPT !.only_raises = FALSE,
                      !.pc = "returned",
                      !.last_collection = t,
                      !.collection_count = @ + 1,
                      !.result = [kind |-> "list",
                                  items |-> ProcessRawData(raw_data, c.name)]]

\* asyncio.sleep(2 ** attempt) is over: the next iteration calls collect_data
AfterBackoff(c) ==
    [c EXCEPT !.pc = "collect_data", !.attempt = @ + 1, !.calls = @ + 1,
              !.wake = 0, !.failed_at = 0]

\* the call frame is dropped; the collector's counters stay
FrameDropped(c) ==
    [c EXCEPT !.pc = "idle", !.calls_done = @ + 1, !.attempt = 0, !.wake = 0,
              !.calls = 0, !.only_raises = TRUE, !.sleeps = <<>>,
              !.raw_data = <<>>, !.result = NoResult, !.errors_before = 0]

CollectWithRetry(s) ==
    /\ col[s].pc = "idle"
    /\ col[s].calls_done < MaxCollections
    /\ col' = [col EXCEPT ![s] = StartCall(@, now)]
    /\ UNCHANGED <<now, ticks, callers, rlVars>>

RateLimitSleepDone(s) ==
    /\ col[s].pc = "rate_limit_sleep"
    /\ now' = Max(now, col[s].wake)
    /\ col' = [col EXCEPT ![s] = AfterRateLimitSleep(@)]
    /\ UNCHANGED <<ticks, callers, rlVars>>

CollectDataReturns(s, feeds) ==
    /\ col[s].pc = "collect_data"
    /\ \E raw_data \in feeds :
        col' = [col EXCEPT ![s] = AttemptReturned(@, now, raw_data)]
    /\ UNCHANGED <<now, ticks, callers, rlVars>>

CollectDataRaises(s) ==
    /\ col[s].pc = "collect_data"
    /\ col' = [col EXCEPT ![s] = AttemptFailed(@, now, "raised")]
    /\ UNCHANGED <<now, ticks, callers, rlVars>>

BackoffDone(s) ==
    /\ col[s].pc = "backoff"
    /\ now' = Max(now, col[s].wake)
    /\ col' = [col EXCEPT ![s] = AfterBackoff(@)]
    /\ UNCHANGED <<ticks, callers, rlVars>>

\* one whole collect_with_retry call, started at time t: the attempts meet
\* the outcomes of `script` one after the other ("raise", or the raw data
\* that collect_data returns); the call's end state and the time it ends
RECURSIVE RunAttempts(_, _, _)
RunAttempts(c, t, script) ==
    LET outcome == Head(script)
        after == IF outcome.kind = "raise" THEN AttemptFailed(c, t, "raised")
                 ELSE AttemptReturned(c, t, outcome.raw_data)
    IN IF after.pc = "backoff"
       THEN RunAttempts(AfterBackoff(after), after.wake, Tail(script))
       ELSE [c |-> after, t |-> t]

RunCollectWithRetry(c, t, script) ==
    LET started == StartCall(c, t)
        slept == started.pc = "rate_limit_sleep"
        entered == IF slept THEN AfterRateLimitSleep(started) ELSE started
        t1 == IF slept THEN started.wake ELSE t
    IN IF entered.pc = "collect_data" THEN RunAttempts(entered, t1, script)
       ELSE [c |-> entered, t |-> t1]

\* what the attempts of one call can meet: `fails` raising calls, then one
\* that returns raw_data, then raising calls again
Script(fails, raw_data, length) ==
    [k \in 1..length |-> IF k = fails + 1 THEN [kind |-> "return", raw_data |-> raw_data]
                         ELSE [kind |-> "raise", raw_data |-> <<>>]]
Scripts(feeds, fails, length) ==
    {Script(f, raw_data, length) : f \in fails, raw_data \in feeds}

\* health_check asks collect_data for one item
HealthCheckLimit == 1
HealthFeeds == {raw_data \in RawFeeds(CollectorKinds) : Len(raw_data) <= HealthCheckLimit}

\* get_collection_stats: the counters of the collector
Stats(c) == <<c.collection_count, c.error_count, c.last_collection>>

\* get_collection_stats: 'success_rate', as a fraction
SuccessRate(c) ==
    [num |-> c.collection_count - c.error_count, den |-> Max(c.collection_count, 1)]

\* a health check that is counted like a collection
HealthCheckCounted(c, outcome) ==
    [c EXCEPT !.pc = "health_checked",
              !.collection_count = IF outcome.kind = "raise" THEN @ ELSE @ + 1,
              !.error_count = IF outcome.kind = "raise" THEN @ + 1 ELSE @,
              !.health = [status |-> IF outcome.kind = "raise" THEN "unhealthy" ELSE "healthy",
                          collect_data_calls |-> 1,
                          collect_raised |-> outcome.kind = "raise",
                          before |-> Stats(c)]]

\* health_check: one collect_data(limit=1) call; `len(test_data) >= 0` if it
\* returns, False if it raises. `before` keeps the counters as they were
HealthCheckResult(c, outcome) ==
    [c EXCEPT !.pc = "health_checked",
              !.health = [status |-> IF outcome.kind = "raise" THEN "unhealthy"
                                     ELSE IF Len(outcome.raw_data) >= 0 THEN "healthy"
                                     ELSE "unhealthy",
                          collect_data_calls |-> 1,
                          collect_raised |-> outcome.kind = "raise",
                          before |-> Stats(c)]]

HealthCheck(s) ==
    /\ col[s].pc = "idle"
    /\ \E outcome \in {[kind |-> "raise", raw_data |-> <<>>]}
                      \cup {[kind |-> "return", raw_data |-> raw_data] : raw_data \in HealthFeeds} :
        col' = [col EXCEPT ![s] = HealthCheckResult(@, outcome)]
    /\ UNCHANGED <<now, ticks, callers, rlVars>>

\* the caller has the answer of health_check
HealthCheckOver(s) ==
    /\ col[s].pc = "health_checked"
    /\ col' = [col EXCEPT ![s] = [@ EXCEPT !.pc = "idle", !.health = NoHealth]]
    /\ UNCHANGED <<now, ticks, callers, rlVars>>

\* the caller has the result (or the exception); the collector is idle again
CallOver(s) ==
    /\ col[s].pc \in {"returned", "raised"}
    /\ col' = [col EXCEPT ![s] = FrameDropped(@)]
    /\ UNCHANGED <<now, ticks, callers, rlVars>>

(***************************************************************************)
(* src/collectors/orchestrator.py                                          *)
(***************************************************************************)
\* _initialize_collectors: twitter, reddit, news, each only with credentials
InitOrder == <<"twitter", "reddit", "news">>
Registries == {SelectSeq(InitOrder, LAMBDA n : n \in present) : present \in SUBSET APIs}

\* the keys of a collection_config; a config may name a source that has no
\* collector; None stands for the default config of collect_all_data
ConfigNames == APIs \cup {"mastodon"}
DefaultConfig == [is_none |-> TRUE, keys |-> {}]
Configs == {DefaultConfig} \cup {[is_none |-> FALSE, keys |-> k] : k \in SUBSET ConfigNames}
EffectiveConfig(config) == IF config.is_none THEN {"twitter", "reddit", "news"} ELSE config.keys

\* what the collectors return in one collect_all_data call
OrchFeeds == RawFeeds({"rich", "incomplete"})

NoResults == [kind |-> "pending", value |-> <<>>, failed |-> <<>>]
NewOrchestration ==
    [pc |-> "idle", started_at |-> 0, tasks |-> <<>>, started |-> {}, hung |-> {},
     task_results |-> [s \in APIs |-> NoResult], collection_results |-> <<>>, results |-> <<>>, failed_collectors |-> <<>>,
     error |-> "pending"]

\* collection_tasks: one _collect_from_source per collector named in the config
CollectionTasks(registry, keys) == SelectSeq(registry, LAMBDA n : n \in keys)

\* a result loop body that leaves a failed collector out of the results
StoreResultDropsFailed(acc, collector_name, result) ==
    IF result.kind = "exception"
    THEN [acc EXCEPT !.failed = Append(@, collector_name)]
    ELSE [acc EXCEPT !.value = Append(@, [name |-> collector_name, items |-> result.items])]

\* the body of the result loop for one collector that is in the config: an
\* exception marks the collector failed and gives it an empty list
StoreResult(acc, collector_name, result) ==
    IF result.kind = "exception"
    THEN [acc EXCEPT !.failed = Append(@, collector_name),
                     !.value = Append(@, [name |-> collector_name, items |-> <<>>])]
    ELSE IF result.kind = "none"
    THEN [acc EXCEPT !.kind = "TypeError"]
    ELSE [acc EXCEPT !.value = Append(@, [name |-> collector_name, items |-> result.items])]

\* the result loop: `for i, (collector_name, collector) in
\* enumerate(self.collectors.items())` reads collection_results[i], i being
\* the position in the registry (from 0; the sequences here start at 1)
RECURSIVE ResultLoop(_, _, _, _, _)
ResultLoop(i, registry, keys, collection_results, acc) ==
    IF i > Len(registry) \/ acc.kind # "pending" THEN acc
    ELSE IF registry[i] \notin keys
    THEN ResultLoop(i + 1, registry, keys, collection_results, acc)
    ELSE IF i > Len(collection_results)
    THEN [acc EXCEPT !.kind = "IndexError"]
    ELSE ResultLoop(i + 1, registry, keys, collection_results,
                    StoreResult(acc, registry[i], collection_results[i]))

\* collect_all_data(config) up to asyncio.gather, called at time t
StartCollection(o, registry, config, t) ==
    LET tasks == CollectionTasks(registry, EffectiveConfig(config))
    IN IF registry = <<>> \/ tasks = <<>>
       THEN [o EXCEPT !.pc = "returned"]
       ELSE [o EXCEPT !.pc = "gathering", !.tasks = tasks, !.started_at = t]

CollectAllData ==
    /\ orch.pc = "idle"
    /\ orch' = StartCollection(orch, collectors, collection_config, now)
    /\ UNCHANGED <<now, ticks, callers, rlVars, col, collectors, collection_config>>

\* collect_technology_data and collect_trending_data: the limit each source
\* is asked for
SourceLimit(limit) == Max(limit \div 3, 10)

TopicOperations == {"collect_technology_data", "collect_trending_data"}

\* the collection_config the two operations build: the same keys and limits,
\* the technology config has a query for twitter and news
TopicConfig(fn, limit) ==
    [is_none |-> FALSE, keys |-> {"twitter", "reddit", "news"},
     limits |-> [s \in {"twitter", "reddit", "news"} |-> SourceLimit(limit)],
     queries |-> IF fn = "collect_technology_data" THEN {"twitter", "news"} ELSE {}]

\* the limits the operations are called with; 100 is the default
TopicLimits == {0, 29, 30, 31, 100}

\* collect_technology_data(limit) or collect_trending_data(limit) builds its
\* config and calls collect_all_data with it
CollectByTopic ==
    /\ client.fn \in TopicOperations
    /\ client.pc = "called"
    /\ orch.pc = "idle"
    /\ LET config == TopicConfig(client.fn, client.limit)
       IN /\ collection_config' = config
          /\ orch' = StartCollection(orch, collectors, config, now)
    /\ client' = [client EXCEPT !.pc = "delegated"]
    /\ UNCHANGED <<now, ticks, callers, rlVars, col, collectors, pipeVars>>

\* a task of the gather runs _collect_from_source to its end: the whole
\* collect_with_retry call of its collector, which shares no state with the
\* other tasks
TaskRuns(s, feeds, fails) ==
    /\ orch.pc = "gathering"
    /\ \E k \in DOMAIN orch.tasks : orch.tasks[k] = s
    /\ s \notin orch.started
    /\ s \notin orch.hung
    /\ \E script \in Scripts(feeds, fails, col[s].max_retries) :
        LET run == RunCollectWithRetry(col[s], orch.started_at, script)
        IN /\ col' = [col EXCEPT ![s] = FrameDropped(run.c)]
           /\ now' = Max(now, run.t)
           /\ orch' = [orch EXCEPT !.started = @ \cup {s},
                                   !.task_results[s] = run.c.result]
    /\ UNCHANGED <<ticks, callers, rlVars, collectors, collection_config>>

\* a task of the gather awaits a collect_data call that never completes:
\* nothing bounds the time a task may take
TaskHangs(s) ==
    /\ orch.pc = "gathering"
    /\ \E k \in DOMAIN orch.tasks : orch.tasks[k] = s
    /\ s \notin orch.started
    /\ s \notin orch.hung
    /\ orch' = [orch EXCEPT !.hung = @ \cup {s}]
    /\ UNCHANGED <<now, ticks, callers, rlVars, col, collectors, collection_config>>

\* asyncio.gather(..., return_exceptions=True) is over: the result loop runs,
\* and collect_all_data returns results or raises
GatherDone ==
    /\ orch.pc = "gathering"
    /\ \A k \in DOMAIN orch.tasks : orch.tasks[k] \in orch.started
    /\ LET collection_results ==
               [k \in DOMAIN orch.tasks |-> orch.task_results[orch.tasks[k]]]
           out == ResultLoop(1, collectors, EffectiveConfig(collection_config),
                             collection_results, NoResults)
       IN orch' = [orch EXCEPT
                !.collection_results = collection_results,
                !.pc = IF out.kind = "pending" THEN "returned" ELSE "raised",
                !.error = out.kind,
                !.results = IF out.kind = "pending" THEN out.value ELSE <<>>,
                !.failed_collectors = out.failed]
    /\ UNCHANGED <<now, ticks, callers, rlVars, col, collectors, collection_config>>

(***************************************************************************)
(* src/storage/data_quality.py                                             *)
(***************************************************************************)
\* thresholds['completeness'] = 0.8, in percent
CompletenessThreshold == 80

\* the four scores of validate_*_data, in percent: completeness, data types,
\* content quality, timeliness. A "rich" item has every field the checks
\* look at; a "poor" one has its required fields only, a short content and
\* no timestamp
QualityScores(item) ==
    IF item.raw_data.kind = "rich" THEN <<100, 100, 100, 100>> ELSE <<70, 100, 50, 0>>

\* validate_reddit_data / validate_news_data / validate_twitter_data
ValidateData(source, item) ==
    LET score == SeqSum(QualityScores(item)) \div 4
    IN [is_valid |-> score >= CompletenessThreshold, quality_score |-> score]

\* get_quality_summary
GetQualitySummary(validation_results) ==
    IF validation_results = <<>> THEN [empty |-> TRUE, total_records |-> 0, valid_records |-> 0]
    ELSE [empty |-> FALSE,
          total_records |-> Len(validation_results),
          valid_records |-> Len(SelectSeq(validation_results, LAMBDA r : r.is_valid))]

(***************************************************************************)
(* src/storage/data_quality.py: the checks of validate_*_data on one item. *)
(* An item is described by the fields it carries (`present`), by whether   *)
(* their values have the types and sizes the checks ask for (`sound`), and *)
(* by what its timestamp is (`stamp`). Scores are counted in units of      *)
(* 1/ScoreScale, so that every quotient of the checks is a whole number.   *)
(***************************************************************************)
ScoreScale == 600

RequiredFields(source) ==
    CASE source = "reddit" -> {"id", "title", "author", "score", "created_utc"}
      [] source = "news" -> {"id", "title", "url", "source_name", "published_at"}
      [] OTHER -> {"id", "text", "created_at", "author_id"}
OptionalFields(source) ==
    CASE source = "reddit" -> {"selftext", "url", "subreddit", "num_comments"}
      [] source = "news" -> {"description", "content", "author", "image_url"}
      [] OTHER -> {"retweet_count", "like_count", "reply_count", "quote_count"}
TimestampField(source) ==
    CASE source = "reddit" -> "created_utc"
      [] source = "news" -> "published_at"
      [] OTHER -> "created_at"

\* the fields _check_*_data_types looks at
TypeCheckedFields(source) ==
    CASE source = "reddit" -> {"id", "score", "created_utc"}
      [] source = "news" -> {"id", "url", "published_at"}
      [] OTHER -> {"id", "text", "retweet_count", "like_count", "reply_count", "quote_count"}

\* the fields _check_*_content_quality looks at
ContentCheckedFields(source) ==
    CASE source = "reddit" -> {"title", "score"}
      [] source = "news" -> {"title", "description"}
      [] OTHER -> {"text", "retweet_count", "like_count", "reply_count", "quote_count"}

\* what a timestamp can be: its age class, or a value that cannot be parsed
Stamps == {"hour", "day", "week", "older", "unparseable"}

\* the items handed to the validator
ValidatorItems(source) ==
    {[present |-> present, sound |-> sound, stamp |-> stamp] :
        present \in SUBSET (RequiredFields(source) \cup OptionalFields(source)),
        sound \in BOOLEAN, stamp \in Stamps \cup {"absent"}}

\* a timestamp is there exactly if its field is
WellFormed(source, item) ==
    item.stamp = "absent" <=> TimestampField(source) \notin item.present

\* _check_completeness: 70% required fields, 30% optional fields
CheckCompleteness(item, required_fields, optional_fields) ==
    IF item.present = {} THEN 0
    ELSE LET required_score ==
                (Cardinality(item.present \cap required_fields) * ScoreScale)
                    \div Cardinality(required_fields)
             optional_score ==
                (Cardinality(item.present \cap optional_fields) * ScoreScale)
                    \div Cardinality(optional_fields)
         IN (7 * required_score + 3 * optional_score) \div 10

\* score / checks if checks > 0 else 0.0, for checks that all pass or all fail
ChecksRatio(item, fields, pass) ==
    LET checks == Cardinality(item.present \cap fields)
        score == IF pass THEN checks ELSE 0
    IN IF checks > 0 THEN (score * ScoreScale) \div checks ELSE 0

\* _check_reddit_data_types / _check_news_data_types / _check_twitter_data_types
CheckDataTypes(source, item) ==
    LET plain == item.present \cap (TypeCheckedFields(source) \ {TimestampField(source)})
        stamped == item.present \cap TypeCheckedFields(source) \cap {TimestampField(source)}
        checks == Cardinality(plain) + Cardinality(stamped)
        score == (IF item.sound THEN Cardinality(plain) ELSE 0)
                 + (IF item.stamp \in Stamps \ {"unparseable"} THEN Cardinality(stamped) ELSE 0)
    IN IF checks > 0 THEN (score * ScoreScale) \div checks ELSE 0

\* _check_*_content_quality
CheckContentQuality(source, item) ==
    ChecksRatio(item, ContentCheckedFields(source), item.sound)

\* _check_timeliness
CheckTimeliness(stamp) ==
    CASE stamp = "absent" -> 0
      [] stamp = "hour" -> ScoreScale
      [] stamp = "day" -> (9 * ScoreScale) \div 10
      [] stamp = "week" -> (7 * ScoreScale) \div 10
      [] stamp = "older" -> (5 * ScoreScale) \div 10
      [] OTHER -> (5 * ScoreScale) \div 10

\* validate_reddit_data / validate_news_data / validate_twitter_data:
\* quality_score is the mean of the four scores, kept here as their sum (in
\* units of 1/(4 * ScoreScale)); valid from 0.8 on
ValidateItem(source, item) ==
    LET completeness_score ==
            CheckCompleteness(item, RequiredFields(source), OptionalFields(source))
        type_score == CheckDataTypes(source, item)
        content_score == CheckContentQuality(source, item)
        timeliness_score == CheckTimeliness(item.stamp)
        score == completeness_score + type_score + content_score + timeliness_score
    IN [is_valid |-> 100 * score >= CompletenessThreshold * 4 * ScoreScale,
        quality_score |-> score,
        scores |-> <<completeness_score, type_score, content_score, timeliness_score>>]

\* a client calls the validator with one item
NoCalls == [fn |-> "none"]
Validate ==
    /\ client.fn = "validate_data"
    /\ client.result.kind = "pending"
    /\ client' = [client EXCEPT !.result =
            [kind |-> "returned", value |-> ValidateItem(client.source, client.item)]]
    /\ UNCHANGED <<now, ticks, callers, rlVars, col, orchVars, pipeVars>>

(***************************************************************************)
(* src/storage/database.py: DataLakeStorage. A write that raises is rolled *)
(* back and leaves no row; each write commits on its own.                  *)
(***************************************************************************)
NewStorage ==
    [raw_data |-> <<>>, processed_data |-> <<>>, analytics_data |-> <<>>,
     last_id |-> [raw_data |-> 0, processed_data |-> 0, analytics_data |-> 0]]

\* the id the database returns for the next row of a table: ids are never
\* given twice, also when rows have been deleted
NextId(st, table) == st.last_id[table] + 1

\* an insert that leaves the table alone when it has a row of the same source
\* and external id
StoreBronzeDataOnConflictDoNothing(st, data, source) ==
    IF \E k \in DOMAIN st.raw_data :
            st.raw_data[k].source = source /\ st.raw_data[k].external_id = data.id
    THEN st
    ELSE [st EXCEPT !.raw_data = Append(@,
                        [id |-> NextId(st, "raw_data"), source |-> source,
                         external_id |-> data.id, collected_at |-> now]),
                    !.last_id.raw_data = @ + 1]

\* store_bronze_data: collected_at is NOW()
StoreBronzeData(st, data, source) ==
    [st EXCEPT !.raw_data = Append(@,
                    [id |-> NextId(st, "raw_data"), source |-> source,
                     external_id |-> data.id, collected_at |-> now]),
               !.last_id.raw_data = @ + 1]

\* store_silver_data: processed_at is NOW()
StoreSilverData(st, bronze_id, processed_data, validation_status, quality_score) ==
    [st EXCEPT !.processed_data = Append(@,
                    [id |-> NextId(st, "processed_data"), raw_data_id |-> bronze_id,
                     source |-> processed_data.source,
                     external_id |-> processed_data.id,
                     validation_status |-> validation_status,
                     quality_score |-> quality_score, processed_at |-> now]),
               !.last_id.processed_data = @ + 1]

\* store_gold_data reads the processed row first
ProcessedRows(st, processed_data_id) ==
    {k \in DOMAIN st.processed_data : st.processed_data[k].id = processed_data_id}

StoreGoldData(st, processed_data_id) ==
    LET processed_row == st.processed_data[CHOOSE k \in ProcessedRows(st, processed_data_id) : TRUE]
    IN [st EXCEPT !.analytics_data = Append(@,
                        [id |-> NextId(st, "analytics_data"),
                         processed_data_id |-> processed_data_id,
                         source |-> processed_row.source,
                         external_id |-> processed_row.external_id,
                         analyzed_at |-> now]),
                   !.last_id.analytics_data = @ + 1]

\* a client calls store_bronze_data: it gets the id of the row the call
\* inserted, the last row of the table
StoreBronze ==
    /\ client.fn = "store_bronze_data"
    /\ Len(client.returned) < MaxStores
    /\ \E source \in APIs, external_id \in 1..MaxItems :
        LET data == [id |-> external_id, source |-> source]
            st == StoreBronzeData(storage, data, source)
        IN /\ storage' = st
           /\ client' = [client EXCEPT !.returned = Append(@,
                    [source |-> source, external_id |-> external_id,
                     bronze_id |-> st.raw_data[Len(st.raw_data)].id])]
    /\ UNCHANGED <<now, ticks, callers, rlVars, col, orchVars, pipeline>>

\* the ON DELETE rule of the foreign keys processed_data.raw_data_id and
\* analytics_data.processed_data_id: the delete is refused while a child row
\* exists, or the child rows are deleted with their parent
ForeignKeyPolicies == {"no_action", "cascade"}

\* the foreign key of an inserted row has a parent row
ParentExists(table, id) == \E k \in DOMAIN table : table[k].id = id

\* DELETE FROM processed_data for the rows `ids`, under the foreign key of
\* analytics_data
DeleteProcessedData(st, ids, on_delete) ==
    IF on_delete = "no_action"
       /\ \E g \in DOMAIN st.analytics_data : st.analytics_data[g].processed_data_id \in ids
    THEN [raised |-> TRUE, st |-> st]
    ELSE [raised |-> FALSE,
          st |-> [st EXCEPT
                    !.processed_data = SelectSeq(@, LAMBDA row : row.id \notin ids),
                    !.analytics_data =
                        SelectSeq(@, LAMBDA row : row.processed_data_id \notin ids)]]

\* DELETE FROM raw_data for the rows `ids`, under the foreign key of
\* processed_data
DeleteRawData(st, ids, on_delete) ==
    LET children == {st.processed_data[k].id : k \in
                        {k \in DOMAIN st.processed_data :
                            st.processed_data[k].raw_data_id \in ids}}
        cascaded == DeleteProcessedData(st, children, on_delete)
    IN IF on_delete = "no_action" /\ children # {}
       THEN [raised |-> TRUE, st |-> st]
       ELSE [raised |-> FALSE,
             st |-> [cascaded.st EXCEPT
                        !.raw_data = SelectSeq(@, LAMBDA row : row.id \notin ids)]]

\* the retention policy cleanup_old_data is called with by default
RetentionDays == 30

\* INTERVAL '%s days', on a clock that counts seconds
SecondsPerDay == 86400

OlderThan(table, column, cutoff) ==
    {table[k].id : k \in {k \in DOMAIN table : table[k][column] < cutoff}}

\* a clean-up on tables that no foreign key links
CleanupOldDataNoForeignKeys(st, days, on_delete) ==
    LET cutoff == now - days * SecondsPerDay
        old_raw == OlderThan(st.raw_data, "collected_at", cutoff)
        old_processed == OlderThan(st.processed_data, "processed_at", cutoff)
    IN [raised |-> FALSE,
        st |-> [st EXCEPT
                    !.raw_data = SelectSeq(@, LAMBDA row : row.id \notin old_raw),
                    !.processed_data =
                        SelectSeq(@, LAMBDA row : row.id \notin old_processed)]]

\* cleanup_old_data: the old raw rows are deleted, then the old processed
\* rows, and the two deletes are committed together; a delete that raises
\* rolls both back. No statement deletes analytics rows
CleanupOldData(st, days, on_delete) ==
    LET cutoff == now - days * SecondsPerDay
        first == DeleteRawData(st, OlderThan(st.raw_data, "collected_at", cutoff), on_delete)
        second == DeleteProcessedData(first.st,
                        OlderThan(first.st.processed_data, "processed_at", cutoff), on_delete)
    IN IF first.raised \/ second.raised THEN [raised |-> TRUE, st |-> st] ELSE second

\* no cleanup_old_data call has ended
NoCleanup == [status |-> "none", rows_before |-> <<0, 0, 0>>]

RowCounts(st) == <<Len(st.raw_data), Len(st.processed_data), Len(st.analytics_data)>>

\* the rows a client has inserted
LakeStores ==
    storage.last_id.raw_data + storage.last_id.processed_data
        + storage.last_id.analytics_data

\* a client of the data lake stores an item of its source in the Bronze layer
LakeStoreBronze ==
    /\ client.fn = "data_lake"
    /\ LakeStores < MaxStores
    /\ \E source \in callers :
        storage' = StoreBronzeData(storage, [id |-> 1, source |-> source], source)
    /\ UNCHANGED <<now, ticks, callers, rlVars, col, orchVars, pipeline, client>>

\* ... and a Silver row for any bronze id: the insert raises, and is rolled
\* back, when the foreign key has no parent row
LakeStoreSilver ==
    /\ client.fn = "data_lake"
    /\ LakeStores < MaxStores
    /\ \E bronze_id \in 1..MaxStores, source \in callers, validation_status \in {"valid", "invalid"} :
        storage' = IF ParentExists(storage.raw_data, bronze_id)
                   THEN StoreSilverData(storage, bronze_id, [id |-> 1, source |-> source],
                                        validation_status, 0)
                   ELSE storage
    /\ UNCHANGED <<now, ticks, callers, rlVars, col, orchVars, pipeline, client>>

\* ... and a Gold row for any processed id: store_gold_data raises ValueError
\* when it finds no processed row
LakeStoreGold ==
    /\ client.fn = "data_lake"
    /\ LakeStores < MaxStores
    /\ \E processed_data_id \in 1..MaxStores :
        storage' = IF ProcessedRows(storage, processed_data_id) # {}
                   THEN StoreGoldData(storage, processed_data_id)
                   ELSE storage
    /\ UNCHANGED <<now, ticks, callers, rlVars, col, orchVars, pipeline, client>>

\* ... and calls cleanup_old_data
LakeCleanup ==
    /\ client.fn = "data_lake"
    /\ client.cleanups < MaxCleanups
    /\ \E days \in {0, RetentionDays} :
        LET out == CleanupOldData(storage, days, client.on_delete)
        IN /\ storage' = out.st
           /\ client' = [client EXCEPT
                    !.cleanups = @ + 1,
                    !.cleanup = [status |-> IF out.raised THEN "raised" ELSE "committed",
                                 rows_before |-> RowCounts(storage)]]
    /\ UNCHANGED <<now, ticks, callers, rlVars, col, orchVars, pipeline>>

(***************************************************************************)
(* DatabaseManager: the connection pool, and get_connection, the context   *)
(* manager every storage operation runs its statements in                  *)
(***************************************************************************)
\* 'maxconn' of _initialize_pool
MaxConn == 10

\* _initialize_pool: no connection is checked out
NewPool == [used |-> 0, exhausted |-> FALSE]

\* connection_pool.getconn(): PoolError when every connection is in use
GetConn(pool) ==
    IF pool.used < MaxConn THEN [pool EXCEPT !.used = @ + 1]
    ELSE [pool EXCEPT !.exhausted = TRUE]

\* a context manager that gives the connection back only when the body did
\* not raise
ReleaseConnectionOnSuccess(pool, conn, raised) ==
    IF conn /\ ~raised THEN [pool EXCEPT !.used = @ - 1] ELSE pool

\* the `finally` clause of get_connection: putconn, if a connection was got
ReleaseConnection(pool, conn, raised) ==
    IF conn THEN [pool EXCEPT !.used = @ - 1] ELSE pool

TierWrites == {"store_bronze_data", "store_silver_data", "store_gold_data"}

\* the client of the pool between two operations
NoOperation == [fn |-> "none", conn |-> FALSE, raised |-> FALSE]

\* a storage operation enters `with self.db_manager.get_connection() as conn`
GetConnection ==
    /\ client.fn = "connection_pool"
    /\ client.operation = NoOperation
    /\ Len(client.log) < MaxStores
    /\ \E fn \in TierWrites :
        LET pool == GetConn(client.pool)
        IN client' = [client EXCEPT
                !.pool = pool,
                !.operation = [fn |-> fn, conn |-> ~pool.exhausted,
                               raised |-> pool.exhausted]]
    /\ UNCHANGED <<now, ticks, callers, rlVars, col, orchVars, pipeVars>>

\* the statements of the operation run and conn.commit() returns: the row is
\* stored. The `finally` clause gives the connection back
OperationCommits ==
    /\ client.fn = "connection_pool"
    /\ client.operation.conn
    /\ \E source \in callers, id \in 1..MaxStores :
        LET fn == client.operation.fn
        IN /\ fn = "store_silver_data" => ParentExists(storage.raw_data, id)
           /\ fn = "store_gold_data" => ProcessedRows(storage, id) # {}
           /\ fn = "store_bronze_data" => id = 1
           /\ storage' =
                CASE fn = "store_bronze_data" ->
                        StoreBronzeData(storage, [id |-> 1, source |-> source], source)
                  [] fn = "store_silver_data" ->
                        StoreSilverData(storage, id, [id |-> 1, source |-> source], "valid", 0)
                  [] fn = "store_gold_data" -> StoreGoldData(storage, id)
    /\ client' = [client EXCEPT
            !.pool = ReleaseConnection(@, client.operation.conn, FALSE),
            !.operation = NoOperation,
            !.log = Append(@, [fn |-> client.operation.fn, outcome |-> "committed"])]
    /\ UNCHANGED <<now, ticks, callers, rlVars, col, orchVars, pipeline>>

\* a statement of the operation raises: the `except` clause of
\* get_connection rolls back and re-raises, the `finally` clause gives the
\* connection back, and the operation logs the error and raises
OperationRaises ==
    /\ client.fn = "connection_pool"
    /\ client.operation # NoOperation
    /\ client' = [client EXCEPT
            !.pool = ReleaseConnection(@, client.operation.conn, TRUE),
            !.operation = NoOperation,
            !.log = Append(@, [fn |-> client.operation.fn, outcome |-> "raised"])]
    /\ UNCHANGED <<now, ticks, callers, rlVars, col, orchVars, pipeVars>>

(***************************************************************************)
(* src/storage/data_pipeline.py                                            *)
(***************************************************************************)
CollectionTypes == {"technology", "default"}

\* _collect_data: collect_technology_data builds a config with the three
\* sources, any other type but 'trending' calls collect_all_data()
ConfigOf(collection_type) ==
    IF collection_type = "technology"
    THEN [is_none |-> FALSE, keys |-> {"twitter", "reddit", "news"}]
    ELSE DefaultConfig

\* what the collectors return in a pipeline run
PipelineFeeds == RawFeeds({"rich", "poor"})

\* the writes of one item that can raise
Faults == {"none", "bronze", "silver", "gold"}

NoSummary ==
    [pipeline_status |-> "none", total_items_processed |-> 0, successful_stores |-> 0,
     failed_stores |-> 0, bronze_layer_summary |-> <<>>, silver_layer_summary |-> <<>>,
     gold_layer_summary |-> <<>>, errors |-> <<>>]

NewPipelineResults ==
    [bronze_layer |-> <<>>, silver_layer |-> <<>>, gold_layer |-> <<>>,
     quality_metrics |-> <<>>, errors |-> <<>>]

\* DataPipeline.__init__, and the frame of run_collection_pipeline; log and
\* write_failures are history: the steps taken for each item, and the writes
\* that raised
NewPipeline(collection_type) ==
    [pc |-> "idle", collection_type |-> collection_type,
     total_processed |-> 0, successful_stores |-> 0, failed_stores |-> 0,
     collected_data |-> <<>>, position |-> 0,
     pipeline_results |-> NewPipelineResults, summary |-> NoSummary,
     log |-> <<>>, write_failures |-> {}]

\* a pipeline that stores analytics data for every item
GoldWantedAlways(quality_result) == TRUE

\* `if quality_result.is_valid:` before the Gold layer
GoldWanted(quality_result) == quality_result.is_valid

Logged(acc, source, item, op) ==
    [acc EXCEPT !.log = Append(@, [source |-> source, id |-> item.id, op |-> op])]

\* the body of the loop of _process_source_data for one item; `fault` is the
\* write that raises. The except clause logs and continues: what was stored
\* before the exception stays, the counters are not updated
ProcessItem(acc, source, item, fault) ==
    LET a1 == Logged(acc, source, item, "bronze")
        bronze_id == NextId(acc.storage, "raw_data")
        a2 == [a1 EXCEPT !.storage = StoreBronzeData(@, item, source),
                         !.bronze_ids = Append(@, bronze_id)]
        quality_result == ValidateData(source, item)
        a3 == [Logged(a2, source, item, "validate") EXCEPT
                    !.quality_results = Append(@, quality_result)]
        a4 == Logged(a3, source, item, "silver")
        silver_id == NextId(acc.storage, "processed_data")
        a5 == [a4 EXCEPT !.storage = StoreSilverData(@, bronze_id, item,
                                IF quality_result.is_valid THEN "valid" ELSE "invalid",
                                quality_result.quality_score),
                         !.silver_ids = Append(@, silver_id)]
        a6 == Logged(a5, source, item, "gold")
        a7 == [a6 EXCEPT !.storage = StoreGoldData(@, silver_id),
                         !.gold_ids = Append(@, NextId(acc.storage, "analytics_data"))]
    IN IF fault = "bronze" THEN a1
       ELSE IF fault = "silver" THEN a4
       ELSE IF GoldWanted(quality_result) /\ fault = "gold" THEN a6
       ELSE LET stored == IF GoldWanted(quality_result) THEN a7 ELSE a5
            IN IF quality_result.is_valid
               THEN [stored EXCEPT !.total_processed = @ + 1, !.successful_stores = @ + 1]
               ELSE [stored EXCEPT !.total_processed = @ + 1, !.failed_stores = @ + 1]

\* a loop that gives up the source at the first item whose write raises
RECURSIVE ProcessItemsAborting(_, _, _, _, _)
ProcessItemsAborting(acc, source, data_items, faults, i) ==
    IF i > Len(data_items) THEN acc
    ELSE IF faults[i] # "none" THEN ProcessItem(acc, source, data_items[i], faults[i])
    ELSE ProcessItemsAborting(ProcessItem(acc, source, data_items[i], faults[i]),
                              source, data_items, faults, i + 1)

\* `for item in data_items`, from the i-th item on
RECURSIVE ProcessItems(_, _, _, _, _)
ProcessItems(acc, source, data_items, faults, i) ==
    IF i > Len(data_items) THEN acc
    ELSE ProcessItems(ProcessItem(acc, source, data_items[i], faults[i]),
                      source, data_items, faults, i + 1)

\* _process_source_data
ProcessSourceData(p, st, source, data_items, faults) ==
    ProcessItems([storage |-> st, bronze_ids |-> <<>>, silver_ids |-> <<>>,
                  gold_ids |-> <<>>, quality_results |-> <<>>,
                  total_processed |-> p.total_processed,
                  successful_stores |-> p.successful_stores,
                  failed_stores |-> p.failed_stores, log |-> p.log],
                 source, data_items, faults, 1)

\* the writes that raise while a source's items are processed: store_gold_data
\* is called for valid items only
FaultPlans(source, data_items) ==
    {faults \in [DOMAIN data_items -> Faults] :
        \A i \in DOMAIN data_items :
            faults[i] = "gold" => GoldWanted(ValidateData(source, data_items[i]))}
FaultsOf(source, data_items, faults) ==
    {[source |-> source, id |-> data_items[i].id, write |-> faults[i]] :
        i \in {j \in DOMAIN data_items : faults[j] # "none"}}

\* run_collection_pipeline is called: _collect_data calls the orchestrator
RunCollectionPipeline ==
    /\ pipeline.pc = "idle"
    /\ CollectAllData
    /\ pipeline' = [pipeline EXCEPT !.pc = "collecting"]
    /\ UNCHANGED storage

\* _collect_data returns what collect_all_data returned, or raises what it raised
CollectData ==
    /\ pipeline.pc = "collecting"
    /\ orch.pc \in {"returned", "raised"}
    /\ pipeline' = IF orch.pc = "raised" THEN [pipeline EXCEPT !.pc = "raised"]
                   ELSE [pipeline EXCEPT !.pc = "processing",
                                         !.collected_data = orch.results,
                                         !.position = 1]
    /\ UNCHANGED <<now, ticks, callers, rlVars, col, orchVars, storage>>

\* one iteration of the loop of _process_and_store_data: a source with no
\* items is skipped, the ids of the others are kept per source
ProcessSource ==
    /\ pipeline.pc = "processing"
    /\ pipeline.position <= Len(pipeline.collected_data)
    /\ LET source == pipeline.collected_data[pipeline.position].name
           data_items == pipeline.collected_data[pipeline.position].items
       IN IF data_items = <<>>
          THEN /\ pipeline' = [pipeline EXCEPT !.position = @ + 1]
               /\ UNCHANGED storage
          ELSE \E faults \in FaultPlans(source, data_items) :
                LET raised == FaultsOf(source, data_items, faults)
                    source_results ==
                        ProcessSourceData(pipeline, storage, source, data_items, faults)
                IN /\ Cardinality(pipeline.write_failures \cup raised) <= MaxWriteFailures
                   /\ storage' = source_results.storage
                   /\ pipeline' = [pipeline EXCEPT
                        !.position = @ + 1,
                        !.total_processed = source_results.total_processed,
                        !.successful_stores = source_results.successful_stores,
                        !.failed_stores = source_results.failed_stores,
                        !.log = source_results.log,
                        !.write_failures = @ \cup raised,
                        !.pipeline_results = [@ EXCEPT
                            !.bronze_layer = Append(@, [name |-> source, ids |-> source_results.bronze_ids]),
                            !.silver_layer = Append(@, [name |-> source, ids |-> source_results.silver_ids]),
                            !.gold_layer = Append(@, [name |-> source, ids |-> source_results.gold_ids]),
                            !.quality_metrics = Append(@,
                                [name |-> source,
                                 summary |-> GetQualitySummary(source_results.quality_results)])]]
    /\ UNCHANGED <<now, ticks, callers, rlVars, col, orchVars>>

\* {source: len(ids) for source, ids in layer.items()}
LayerSummary(layer) == [k \in DOMAIN layer |-> [name |-> layer[k].name, count |-> Len(layer[k].ids)]]

\* _generate_pipeline_summary, and run_collection_pipeline returns it
GeneratePipelineSummary ==
    /\ pipeline.pc = "processing"
    /\ pipeline.position > Len(pipeline.collected_data)
    /\ pipeline' = [pipeline EXCEPT
            !.pc = "returned",
            !.summary = [pipeline_status |-> "completed",
                         total_items_processed |-> pipeline.total_processed,
                         successful_stores |-> pipeline.successful_stores,
                         failed_stores |-> pipeline.failed_stores,
                         bronze_layer_summary |-> LayerSummary(pipeline.pipeline_results.bronze_layer),
                         silver_layer_summary |-> LayerSummary(pipeline.pipeline_results.silver_layer),
                         gold_layer_summary |-> LayerSummary(pipeline.pipeline_results.gold_layer),
                         errors |-> pipeline.pipeline_results.errors]]
    /\ UNCHANGED <<now, ticks, callers, rlVars, col, orchVars, storage>>

\* run_pipeline calls run_collection_pipeline of the module-level
\* data_pipeline again: the frame of the run that returned is gone, the
\* counters of the instance are what they were
RunPipelineAgain ==
    /\ client.fn = "run_pipeline"
    /\ client.runs < MaxRuns
    /\ pipeline.pc = "returned"
    /\ client' = [client EXCEPT !.runs = @ + 1]
    /\ pipeline' = [NewPipeline(pipeline.collection_type) EXCEPT
            !.total_processed = pipeline.total_processed,
            !.successful_stores = pipeline.successful_stores,
            !.failed_stores = pipeline.failed_stores]
    /\ orch' = NewOrchestration
    /\ UNCHANGED <<now, ticks, callers, rlVars, col, collectors, collection_config, storage>>

(***************************************************************************)
(* app/processors.py: DataCleaner.process_raw_data, and the queries of     *)
(* app/database.py it runs                                                 *)
(***************************************************************************)
\* the sources process_raw_data has a cleaning function for
KnownSources == {"reddit", "news"}

\* the raw_posts tables the cleaner may find: rows of any source, in the
\* order of their collected_at, none processed yet
RawPosts ==
    {[k \in DOMAIN sources |-> [id |-> k, source |-> sources[k], collected_at |-> k,
                                processed |-> FALSE]] :
        sources \in SeqsUpTo(APIs, MaxRows) \ {<<>>}}

\* get_unprocessed_raw_data: WHERE processed = FALSE ORDER BY collected_at
\* DESC LIMIT limit
RECURSIVE NewestFirst(_)
NewestFirst(rows) ==
    IF rows = <<>> THEN <<>>
    ELSE <<rows[Len(rows)]>> \o NewestFirst(SubSeq(rows, 1, Len(rows) - 1))

GetUnprocessedRawData(db, limit) ==
    LET unprocessed == SelectSeq(NewestFirst(db.raw_posts), LAMBDA row : ~row.processed)
    IN SubSeq(unprocessed, 1, Min(limit, Len(unprocessed)))

\* insert_clean_data: the clean row is inserted unless one of the same source
\* and external id is there, and the raw row is marked processed
InsertCleanData(db, raw_id, source) ==
    [db EXCEPT
        !.clean_posts = IF \E k \in DOMAIN @ : @[k].raw_id = raw_id THEN @
                        ELSE Append(@, [raw_id |-> raw_id, source |-> source]),
        !.raw_posts = [k \in DOMAIN @ |->
                        IF @[k].id = raw_id THEN [@[k] EXCEPT !.processed = TRUE]
                        ELSE @[k]]]

\* the loop of process_raw_data over the fetched rows: a row of an unknown
\* source is skipped with a warning
RECURSIVE CleanRows(_, _, _)
CleanRows(acc, raw_data, i) ==
    IF i > Len(raw_data) THEN acc
    ELSE IF raw_data[i].source \in KnownSources
    THEN CleanRows([db |-> InsertCleanData(acc.db, raw_data[i].id, raw_data[i].source),
                    processed_count |-> acc.processed_count + 1], raw_data, i + 1)
    ELSE CleanRows(acc, raw_data, i + 1)

\* process_raw_data(limit)
ProcessRawDataCall ==
    /\ client.fn = "process_raw_data"
    /\ LET out == CleanRows([db |-> storage, processed_count |-> 0],
                            GetUnprocessedRawData(storage, client.limit), 1)
       IN /\ storage' = out.db
          /\ client' = [client EXCEPT !.returned = out.processed_count]
    /\ UNCHANGED <<now, ticks, callers, rlVars, col, orchVars, pipeline>>

(***************************************************************************)
(* app/rate_limiter.py                                                     *)
(***************************************************************************)
MinuteSpan == 60
HourSpan == 3600
DaySpan == 86400
BackoffCap == 60

\* APIRateLimiter.__init__: the three configured limiters
RateLimitConfig(api) ==
    CASE api = "reddit"  -> [requests_per_minute |-> 60, requests_per_hour |-> 3600,
                             requests_per_day |-> 86400, backoff_multiplier |-> 2]
      [] api = "news"    -> [requests_per_minute |-> 1, requests_per_hour |-> 4,
                             requests_per_day |-> 100, backoff_multiplier |-> 2]
      [] api = "twitter" -> [requests_per_minute |-> 1, requests_per_hour |-> 2,
                             requests_per_day |-> 50, backoff_multiplier |-> 2]

\* RateLimiter.__init__
NewLimiter == [minute |-> <<>>, hour |-> <<>>, day |-> <<>>, consecutive_failures |-> 0]

\* history: was record_failure ever called, which outcome was recorded last,
\* and how many wait_if_needed calls started since that record
NoHistory == [failed_ever |-> FALSE, last_outcome |-> "none", waits_since |-> 0]

NotSleeping == [held |-> FALSE, current_time |-> 0, wake |-> 0, delay |-> 0]

\* a pruning that forgets nothing
CleanOldRequestsKeepsAll(window, current_time, max_age) == window

\* _clean_old_requests: keep the requests newer than max_age seconds
CleanOldRequests(window, current_time, max_age) ==
    SelectSeq(window, LAMBDA req_time : req_time > current_time - max_age)

\* the three cleaning calls at the head of _can_make_request
CleanAll(l, t) ==
    [l EXCEPT !.minute = CleanOldRequests(l.minute, t, MinuteSpan),
              !.hour = CleanOldRequests(l.hour, t, HourSpan),
              !.day = CleanOldRequests(l.day, t, DaySpan)]

\* the limit checks of _can_make_request, on the cleaned windows
CanMakeRequest(l, cfg) ==
    /\ Len(l.minute) < cfg.requests_per_minute
    /\ Len(l.hour) < cfg.requests_per_hour
    /\ Len(l.day) < cfg.requests_per_day

\* wait_if_needed, the branch taken when _can_make_request is false:
\* every non-empty window contributes the time until its oldest entry expires
OldestWait(window, current_time, span) ==
    IF window = <<>> THEN 0 ELSE span - (current_time - SeqMin(window))

LimitDelay(l, cfg, current_time) ==
    IF CanMakeRequest(l, cfg) THEN 0
    ELSE Max(Max(OldestWait(l.minute, current_time, MinuteSpan),
                 OldestWait(l.hour, current_time, HourSpan)),
             OldestWait(l.day, current_time, DaySpan))

\* _calculate_delay: 0 without failures, else max(1, base + jitter) with
\* base = min(60, multiplier ** failures) and jitter = base * 0.1 * (0.5 - f),
\* f the sub-second phase of the clock in [0, 1): the whole-second outcomes
CalculateDelay(failures, cfg) ==
    IF failures = 0 THEN {0}
    ELSE LET base_delay == Min(BackoffCap, Pow(cfg.backoff_multiplier, failures))
         IN {d \in 1..(base_delay + base_delay) :
                /\ 20 * d > 19 * base_delay \/ d = 1
                /\ 20 * d <= 21 * base_delay
                /\ d = 1 => 20 >= 19 * base_delay}

RecordRequest(l, current_time) ==
    [l EXCEPT !.minute = Append(@, current_time),
              !.hour = Append(@, current_time),
              !.day = Append(@, current_time)]

TotalCalls ==
    LET n(api) == Len(admitted[api]) + (IF sleeping[api].held THEN 1 ELSE 0)
    IN n("reddit") + n("news") + n("twitter")

\* wait_if_needed up to time.sleep: the lock is taken, the windows are pruned,
\* the delay is computed; with delay 0 the call records the request and returns
WaitIfNeeded(api) ==
    /\ ~sleeping[api].held
    /\ TotalCalls < MaxCalls
    /\ LET cfg == RateLimitConfig(api)
           current_time == now
           cleaned == CleanAll(limiters[api], current_time)
           limit_delay == LimitDelay(cleaned, cfg, current_time)
       IN \E backoff_delay \in CalculateDelay(cleaned.consecutive_failures, cfg) :
            LET delay == Max(limit_delay, backoff_delay)
            IN IF delay > 0
               THEN /\ limiters' = [limiters EXCEPT ![api] = cleaned]
                    /\ sleeping' = [sleeping EXCEPT ![api] =
                            [held |-> TRUE, current_time |-> current_time,
                             wake |-> current_time + delay, delay |-> delay]]
                    /\ UNCHANGED <<admitted, last_delay>>
               ELSE /\ limiters' = [limiters EXCEPT ![api] = RecordRequest(cleaned, current_time)]
                    /\ admitted' = [admitted EXCEPT ![api] = Append(@, now)]
                    /\ last_delay' = [last_delay EXCEPT ![api] = 0]
                    /\ UNCHANGED sleeping
    /\ hist' = [hist EXCEPT ![api].waits_since = @ + 1]
    /\ UNCHANGED <<now, ticks, callers, appVars>>

\* wait_if_needed after time.sleep(delay): the request is recorded with the
\* current_time read on entry, the delay is returned and the lock released
WaitReturn(api) ==
    /\ sleeping[api].held
    /\ now' = Max(now, sleeping[api].wake)
    /\ limiters' = [limiters EXCEPT ![api] = RecordRequest(@, sleeping[api].current_time)]
    /\ admitted' = [admitted EXCEPT ![api] = Append(@, now')]
    /\ last_delay' = [last_delay EXCEPT ![api] = sleeping[api].delay]
    /\ sleeping' = [sleeping EXCEPT ![api] = NotSleeping]
    /\ UNCHANGED <<ticks, hist, callers, appVars>>

\* a record_success that forgets one failure instead of all of them
RecordSuccessDecrements(api) ==
    /\ ~sleeping[api].held
    /\ limiters' = [limiters EXCEPT ![api].consecutive_failures = Max(0, @ - 1)]
    /\ hist' = [hist EXCEPT ![api].last_outcome = "success", ![api].waits_since = 0]
    /\ UNCHANGED <<now, ticks, sleeping, admitted, last_delay, callers, appVars>>

\* record_success (takes the lock)
RecordSuccess(api) ==
    /\ ~sleeping[api].held
    /\ limiters' = [limiters EXCEPT ![api].consecutive_failures = 0]
    /\ hist' = [hist EXCEPT ![api].last_outcome = "success", ![api].waits_since = 0]
    /\ UNCHANGED <<now, ticks, sleeping, admitted, last_delay, callers, appVars>>

\* a record_failure that waits for one lock shared by all the limiters
RecordFailureSharedLock(api) ==
    /\ \A other \in APIs : ~sleeping[other].held
    /\ limiters[api].consecutive_failures < MaxFailures
    /\ limiters' = [limiters EXCEPT ![api].consecutive_failures = @ + 1]
    /\ hist' = [hist EXCEPT ![api] =
            [failed_ever |-> TRUE, last_outcome |-> "failure", waits_since |-> 0]]
    /\ UNCHANGED <<now, ticks, sleeping, admitted, last_delay, callers, appVars>>

\* record_failure (takes the lock)
RecordFailure(api) ==
    /\ ~sleeping[api].held
    /\ limiters[api].consecutive_failures < MaxFailures
    /\ limiters' = [limiters EXCEPT ![api].consecutive_failures = @ + 1]
    /\ hist' = [hist EXCEPT ![api] =
            [failed_ever |-> TRUE, last_outcome |-> "failure", waits_since |-> 0]]
    /\ UNCHANGED <<now, ticks, sleeping, admitted, last_delay, callers, appVars>>

(***************************************************************************)
(* The environment: time passes                                            *)
(***************************************************************************)
Tick(d) ==
    /\ ticks < MaxTicks
    /\ now' = now + d
    /\ ticks' = ticks + 1
    /\ UNCHANGED <<callers, rlVars, appVars>>

\* the module-level rate_limiter instance, and the clock
InitLimiters ==
    /\ now = 0
    /\ ticks = 0
    /\ limiters = [api \in APIs |-> NewLimiter]
    /\ sleeping = [api \in APIs |-> NotSleeping]
    /\ admitted = [api \in APIs |-> <<>>]
    /\ last_delay = [api \in APIs |-> -1]
    /\ hist = [api \in APIs |-> NoHistory]

\* a pipeline that is not run
InitPipelineUnused ==
    /\ pipeline = NewPipeline("technology")
    /\ storage = NewStorage

\* no direct call of the validator or the storage
InitClientUnused == client = NoCalls

\* an orchestrator on which collect_all_data is not called
InitOrchestratorUnused ==
    /\ collectors = <<>>
    /\ collection_config = DefaultConfig
    /\ orch = NewOrchestration
    /\ InitPipelineUnused
    /\ InitClientUnused

InitRL ==
    /\ InitLimiters
    /\ callers \in {{api} : api \in APIs}
    /\ col = [s \in APIs |-> NewCollector(s, DefaultMaxRetries)]
    /\ InitOrchestratorUnused

NextRL ==
    \/ \E api \in callers : WaitIfNeeded(api)
    \/ \E api \in callers : WaitReturn(api)
    \/ \E api \in callers : RecordSuccess(api)
    \/ \E api \in callers : RecordFailure(api)
    \/ \E d \in TickSteps : Tick(d)

SpecRL == InitRL /\ [][NextRL]_vars

\* two sources are called through the module-level rate_limiter, from
\* different threads
InitRLShared ==
    /\ InitLimiters
    /\ callers \in {{a, b} : a, b \in APIs} \ {{api} : api \in APIs}
    /\ col = [s \in APIs |-> NewCollector(s, DefaultMaxRetries)]
    /\ InitOrchestratorUnused

\* the calls of the two threads interleave; the clock moves by minutes
NextRLShared ==
    \/ \E api \in callers : WaitIfNeeded(api)
    \/ \E api \in callers : WaitReturn(api)
    \/ \E api \in callers : RecordSuccess(api)
    \/ \E api \in callers : RecordFailure(api)
    \/ Tick(MinuteSpan)

SpecRLShared == InitRLShared /\ [][NextRLShared]_vars

InitCollector ==
    /\ InitLimiters
    /\ InitOrchestratorUnused
    /\ callers \in {{s} : s \in APIs}
    /\ \E max_retries \in 0..MaxRetries :
        col = [s \in APIs |-> NewCollector(s, IF s \in callers THEN max_retries
                                              ELSE DefaultMaxRetries)]

NextCollector ==
    \/ \E s \in callers : CollectWithRetry(s) /\ UNCHANGED <<orchVars, dataVars>>
    \/ \E s \in callers : RateLimitSleepDone(s) /\ UNCHANGED <<orchVars, dataVars>>
    \/ \E s \in callers : CollectDataReturns(s, RawFeeds(CollectorKinds)) /\ UNCHANGED <<orchVars, dataVars>>
    \/ \E s \in callers : CollectDataRaises(s) /\ UNCHANGED <<orchVars, dataVars>>
    \/ \E s \in callers : BackoffDone(s) /\ UNCHANGED <<orchVars, dataVars>>
    \/ \E s \in callers : CallOver(s) /\ UNCHANGED <<orchVars, dataVars>>
    \/ \E s \in callers : HealthCheck(s) /\ UNCHANGED <<orchVars, dataVars>>
    \/ \E s \in callers : HealthCheckOver(s) /\ UNCHANGED <<orchVars, dataVars>>
    \/ Tick(RateLimitDelay)

SpecCollector == InitCollector /\ [][NextCollector]_vars

\* the orchestrator is built with the collectors whose credentials are set,
\* always in the order twitter, reddit, news; collect_all_data is then called
\* with no config or with a config naming any sources
InitOrch ==
    /\ InitLimiters
    /\ collectors \in Registries
    /\ collection_config \in Configs
    /\ orch = NewOrchestration
    /\ InitPipelineUnused
    /\ InitClientUnused
    /\ callers = {collectors[i] : i \in DOMAIN collectors}
    /\ col = [s \in APIs |-> NewCollector(s, DefaultMaxRetries)]

NextOrch ==
    \/ CollectAllData /\ UNCHANGED dataVars
    \/ \E s \in APIs : TaskRuns(s, OrchFeeds, 0..DefaultMaxRetries) /\ UNCHANGED dataVars
    \/ \E s \in APIs : TaskHangs(s) /\ UNCHANGED dataVars
    \/ GatherDone /\ UNCHANGED dataVars

SpecOrch == InitOrch /\ [][NextOrch]_vars

\* an orchestrator whose collect_technology_data or collect_trending_data
\* is called
InitTopic ==
    /\ InitLimiters
    /\ collectors \in Registries
    /\ collection_config = DefaultConfig
    /\ orch = NewOrchestration
    /\ InitPipelineUnused
    /\ callers = {collectors[i] : i \in DOMAIN collectors}
    /\ col = [s \in APIs |-> NewCollector(s, DefaultMaxRetries)]
    /\ \E fn \in TopicOperations, limit \in TopicLimits :
        client = [fn |-> fn, limit |-> limit, pc |-> "called"]

NextTopic ==
    \/ CollectByTopic
    \/ \E s \in APIs : TaskRuns(s, OrchFeeds, {0, DefaultMaxRetries}) /\ UNCHANGED dataVars
    \/ GatherDone /\ UNCHANGED dataVars

SpecTopic == InitTopic /\ [][NextTopic]_vars

\* the event loop runs whatever is ready to run
SpecOrchFair == SpecOrch /\ WF_vars(NextOrch)

\* the items that the tasks of a gather have returned so far
CollectedItems(task_results) ==
    SeqSum([k \in DOMAIN InitOrder |-> Len(task_results[InitOrder[k]].items)])

\* a pipeline is built around an orchestrator with the collectors whose
\* credentials are set, and run_collection_pipeline is called
InitPipeline ==
    /\ InitLimiters
    /\ collectors \in Registries
    /\ callers = {collectors[i] : i \in DOMAIN collectors}
    /\ col = [s \in APIs |-> NewCollector(s, DefaultMaxRetries)]
    /\ orch = NewOrchestration
    /\ storage = NewStorage
    /\ InitClientUnused
    /\ \E collection_type \in CollectionTypes :
        /\ pipeline = NewPipeline(collection_type)
        /\ collection_config = ConfigOf(collection_type)

NextPipeline ==
    \/ RunCollectionPipeline /\ UNCHANGED client
    \/ \E s \in APIs :
        /\ TaskRuns(s, PipelineFeeds, {0, DefaultMaxRetries})
        /\ CollectedItems(orch'.task_results) <= MaxRunItems
        /\ UNCHANGED dataVars
    \/ GatherDone /\ UNCHANGED dataVars
    \/ CollectData /\ UNCHANGED client
    \/ ProcessSource /\ UNCHANGED client
    \/ GeneratePipelineSummary /\ UNCHANGED client

SpecPipeline == InitPipeline /\ [][NextPipeline]_vars

\* the module-level data_pipeline, with one collector, is run several times
InitPipelineRuns ==
    /\ InitLimiters
    /\ collectors \in {<<s>> : s \in APIs}
    /\ callers = {collectors[i] : i \in DOMAIN collectors}
    /\ col = [s \in APIs |-> NewCollector(s, DefaultMaxRetries)]
    /\ orch = NewOrchestration
    /\ storage = NewStorage
    /\ client = [fn |-> "run_pipeline", runs |-> 1]
    /\ \E collection_type \in CollectionTypes :
        /\ pipeline = NewPipeline(collection_type)
        /\ collection_config = ConfigOf(collection_type)

NextPipelineRuns ==
    \/ RunCollectionPipeline /\ UNCHANGED client
    \/ \E s \in APIs :
        /\ TaskRuns(s, PipelineFeeds, {0, DefaultMaxRetries})
        /\ UNCHANGED dataVars
    \/ GatherDone /\ UNCHANGED dataVars
    \/ CollectData /\ UNCHANGED client
    \/ ProcessSource /\ UNCHANGED client
    \/ GeneratePipelineSummary /\ UNCHANGED client
    \/ RunPipelineAgain

SpecPipelineRuns == InitPipelineRuns /\ [][NextPipelineRuns]_vars

\* a DataCleaner on a database with unprocessed raw rows; no row arrives
InitCleaner ==
    /\ InitLimiters
    /\ callers = {}
    /\ col = [s \in APIs |-> NewCollector(s, DefaultMaxRetries)]
    /\ collectors = <<>>
    /\ collection_config = DefaultConfig
    /\ orch = NewOrchestration
    /\ pipeline = NewPipeline("technology")
    /\ \E raw_posts \in RawPosts, limit \in 1..MaxLimit :
        /\ storage = [raw_posts |-> raw_posts, clean_posts |-> <<>>]
        /\ client = [fn |-> "process_raw_data", limit |-> limit, returned |-> None]

NextCleaner == ProcessRawDataCall

SpecCleaner == InitCleaner /\ [][NextCleaner]_vars

\* process_raw_data is called again and again
SpecCleanerFair == SpecCleaner /\ WF_vars(NextCleaner)

\* the validator is called with an item of one of the three sources
InitValidator ==
    /\ InitLimiters
    /\ callers = {}
    /\ col = [s \in APIs |-> NewCollector(s, DefaultMaxRetries)]
    /\ collectors = <<>>
    /\ collection_config = DefaultConfig
    /\ orch = NewOrchestration
    /\ InitPipelineUnused
    /\ \E source \in APIs : \E item \in ValidatorItems(source) :
        /\ WellFormed(source, item)
        /\ client = [fn |-> "validate_data", source |-> source, item |-> item,
                     result |-> [kind |-> "pending"]]

NextValidator == Validate

\* a client of an empty data lake calls store_bronze_data
InitStorage ==
    /\ InitLimiters
    /\ callers = {}
    /\ col = [s \in APIs |-> NewCollector(s, DefaultMaxRetries)]
    /\ collectors = <<>>
    /\ collection_config = DefaultConfig
    /\ orch = NewOrchestration
    /\ InitPipelineUnused
    /\ client = [fn |-> "store_bronze_data", returned |-> <<>>]

NextStorage == StoreBronze

SpecStorage == InitStorage /\ [][NextStorage]_vars

\* a client of an empty data lake whose tables are linked by foreign keys
\* writes to the three layers and cleans up, as the days pass
InitLake ==
    /\ InitLimiters
    /\ callers \in {{api} : api \in APIs}
    /\ col = [s \in APIs |-> NewCollector(s, DefaultMaxRetries)]
    /\ collectors = <<>>
    /\ collection_config = DefaultConfig
    /\ orch = NewOrchestration
    /\ InitPipelineUnused
    /\ \E on_delete \in ForeignKeyPolicies :
        client = [fn |-> "data_lake", on_delete |-> on_delete, cleanups |-> 0,
                  cleanup |-> NoCleanup]

NextLake ==
    \/ LakeStoreBronze
    \/ LakeStoreSilver
    \/ LakeStoreGold
    \/ LakeCleanup
    \/ Tick(SecondsPerDay)

SpecLake == InitLake /\ [][NextLake]_vars

\* a client writes to the tiers of an empty data lake, one operation after
\* the other, through the connection pool
InitPool ==
    /\ InitLimiters
    /\ callers \in {{api} : api \in APIs}
    /\ col = [s \in APIs |-> NewCollector(s, DefaultMaxRetries)]
    /\ collectors = <<>>
    /\ collection_config = DefaultConfig
    /\ orch = NewOrchestration
    /\ InitPipelineUnused
    /\ client = [fn |-> "connection_pool", pool |-> NewPool, operation |-> NoOperation,
                 log |-> <<>>]

NextPool ==
    \/ GetConnection
    \/ OperationCommits
    \/ OperationRaises

SpecPool == InitPool /\ [][NextPool]_vars

SpecValidator == InitValidator /\ [][NextValidator]_vars

(***************************************************************************)
(* C1: with zero recorded failures, the calls admitted by one source's     *)
(* limiter within any rolling 60-second interval never exceed its          *)
(* per-minute cap.                                                         *)
(***************************************************************************)
AdmittedInWindow(api, t) ==
    Cardinality({i \in DOMAIN admitted[api] :
                    admitted[api][i] > t - MinuteSpan /\ admitted[api][i] <= t})

C1_MinuteCapRespected ==
    \A api \in APIs :
        ~hist[api].failed_ever =>
            \A i \in DOMAIN admitted[api] :
                AdmittedInWindow(api, admitted[api][i]) <= RateLimitConfig(api).requests_per_minute

(***************************************************************************)
(* C9: once record_success has been called (after any number k >= 0 of    *)
(* record_failure calls), consecutive_failures is 0 and the backoff delay  *)
(* is 0; a wait_if_needed call made then, with no window at capacity,      *)
(* returns delay 0 without sleeping.                                       *)
(***************************************************************************)
WaitStarts(api) ==
    /\ ~sleeping[api].held
    /\ hist'[api].waits_since = hist[api].waits_since + 1

C9_SuccessResetsBackoff ==
    /\ [](\A api \in APIs :
            hist[api].last_outcome = "success" =>
                /\ limiters[api].consecutive_failures = 0
                /\ CalculateDelay(limiters[api].consecutive_failures,
                                  RateLimitConfig(api)) = {0})
    /\ [][\A api \in APIs :
            ( /\ hist[api].last_outcome = "success"
              /\ WaitStarts(api)
              /\ CanMakeRequest(CleanAll(limiters[api], now), RateLimitConfig(api)) )
            => ( /\ ~sleeping'[api].held
                 /\ last_delay'[api] = 0
                 /\ admitted'[api] = Append(admitted[api], now) )]_vars

\* a limiter that failed MaxFailures times in a row, then succeeded, and then
\* admitted a call with delay 0
C9_Witness ==
    \E api \in APIs :
        /\ hist[api].failed_ever
        /\ hist[api].last_outcome = "success"
        /\ hist[api].waits_since >= 1
        /\ ~sleeping[api].held
        /\ last_delay[api] = 0
        /\ limiters[api].consecutive_failures = 0

(***************************************************************************)
(* C4: a collect_with_retry call in which every collect_data call raised   *)
(* made exactly max_retries calls, slept 2^attempt seconds after attempt   *)
(* number `attempt` (counted from 0) and not after the last one, and ended *)
(* by raising; the next attempt starts no sooner than 2^attempt seconds    *)
(* after the failure.                                                      *)
(***************************************************************************)
C4_RetriesThenRaise ==
    /\ [](\A s \in APIs :
            LET c == col[s]
            IN /\ c.calls <= c.max_retries
               /\ (c.pc \in {"returned", "raised"} /\ c.calls >= 1 /\ c.only_raises) =>
                    /\ c.pc = "raised"
                    /\ c.result.kind = "exception"
                    /\ c.calls = c.max_retries
                    /\ Len(c.sleeps) = c.max_retries - 1
                    /\ \A i \in DOMAIN c.sleeps : c.sleeps[i] = Pow(2, i - 1))
    /\ [][\A s \in APIs :
            (col[s].pc = "backoff" /\ col'[s].pc = "collect_data") =>
                /\ now' - col[s].failed_at >= Pow(2, col[s].attempt)
                /\ col'[s].attempt = col[s].attempt + 1]_vars

\* three failing attempts of a collector built with max_retries = 3
C4_Witness ==
    \E s \in APIs :
        /\ col[s].max_retries = DefaultMaxRetries
        /\ col[s].pc = "raised"
        /\ col[s].only_raises
        /\ col[s].calls = 3
        /\ col[s].sleeps = <<1, 2>>

(***************************************************************************)
(* C10: a collect_with_retry call that returns a list returns the          *)
(* transform_data images of exactly the raw items that validate_data       *)
(* accepted, in the order of collect_data; the rejected items cause no     *)
(* further collect_data call, no error count and no exception.             *)
(***************************************************************************)
ValidItems(raw_data) == SelectSeq(raw_data, validate_data)

C10_ValidItemsInOrder ==
    \A s \in APIs :
        LET c == col[s]
            kept == ValidItems(c.raw_data)
        IN (c.pc = "returned" /\ c.result.kind = "list") =>
            /\ Len(c.result.items) = Len(kept)
            /\ \A i \in DOMAIN kept :
                    c.result.items[i] = transform_data(kept[i], c.name)
            /\ c.calls = c.attempt + 1
            /\ c.error_count = c.errors_before

\* a returned call whose raw data held a rejected item before an accepted one
C10_Witness ==
    \E s \in APIs :
        /\ col[s].pc = "returned"
        /\ col[s].result.kind = "list"
        /\ Len(col[s].raw_data) = 2
        /\ ~validate_data(col[s].raw_data[1])
        /\ validate_data(col[s].raw_data[2])
        /\ Len(col[s].result.items) = 1

(***************************************************************************)
(* C2: when collect_all_data is called with a config naming every          *)
(* registered source and exactly one source's collect_with_retry fails,    *)
(* the call returns a result map with one key per registered source, the   *)
(* failing source maps to an empty list, the failed-collectors list of the *)
(* run is exactly that source, and every other source maps to the items    *)
(* its own collector returned, in their order.                             *)
(***************************************************************************)
Registered == {collectors[i] : i \in DOMAIN collectors}
GatherOver == orch.pc \in {"returned", "raised"} /\ orch.started # {}
FailedTasks == {s \in orch.started : orch.task_results[s].kind = "exception"}
ResultOf(name) ==
    {orch.results[k].items : k \in {j \in DOMAIN orch.results : orch.results[j].name = name}}

C2_OneFailingSource ==
    (/\ GatherOver
     /\ Registered \subseteq EffectiveConfig(collection_config)
     /\ Cardinality(FailedTasks) = 1)
    => /\ orch.pc = "returned"
       /\ Len(orch.results) = Cardinality(Registered)
       /\ \A s \in Registered :
            ResultOf(s) = {IF s \in FailedTasks THEN <<>> ELSE orch.task_results[s].items}
       /\ \E f \in FailedTasks : orch.failed_collectors = <<f>>

\* three configured sources, one failed, the two others returned items
C2_Witness ==
    /\ GatherOver
    /\ Len(collectors) = 3
    /\ Registered \subseteq EffectiveConfig(collection_config)
    /\ Cardinality(FailedTasks) = 1
    /\ \A s \in Registered \ FailedTasks : Len(orch.task_results[s].items) = MaxItems

(***************************************************************************)
(* C3: collect_all_data never raises to its caller, whatever the registry, *)
(* the config map and the per-source collection failures are.              *)
(***************************************************************************)
C3_NeverRaises == orch.pc # "raised"

(***************************************************************************)
(* C5: after any pipeline run, including runs in which bronze, silver or   *)
(* gold writes fail, a Gold record referencing a Silver record exists if   *)
(* and only if that Silver record was stored with validation status        *)
(* 'valid'.                                                                *)
(***************************************************************************)
RunOver == pipeline.pc = "returned"
GoldOf(processed_row) ==
    {g \in DOMAIN storage.analytics_data :
        storage.analytics_data[g].processed_data_id = processed_row.id}

C5_GoldIffValidSilver ==
    RunOver =>
        \A k \in DOMAIN storage.processed_data :
            GoldOf(storage.processed_data[k]) # {}
                <=> storage.processed_data[k].validation_status = "valid"

(***************************************************************************)
(* C6: in a pipeline run where no storage write fails, for each source     *)
(* with n collected items of which v are valid, the summary reports bronze *)
(* count n, silver count n and gold count v (a source without items has no *)
(* entry: nothing is counted for it), and every Gold record references     *)
(* exactly one Silver record, whose status is 'valid'.                     *)
(***************************************************************************)
CountsOf(layer_summary, name) ==
    {layer_summary[k].count :
        k \in {j \in DOMAIN layer_summary : layer_summary[j].name = name}}
Reports(layer_summary, name, data_items, n) ==
    /\ Cardinality({j \in DOMAIN layer_summary : layer_summary[j].name = name}) <= 1
    /\ CountsOf(layer_summary, name) = IF data_items = <<>> THEN {} ELSE {n}
ValidCount(source, data_items) ==
    Len(SelectSeq(data_items, LAMBDA item : ValidateData(source, item).is_valid))
SilverOf(gold_row) ==
    {k \in DOMAIN storage.processed_data :
        storage.processed_data[k].id = gold_row.processed_data_id}

C6_SummaryCounts ==
    (RunOver /\ pipeline.write_failures = {}) =>
        /\ \A k \in DOMAIN pipeline.collected_data :
            LET source == pipeline.collected_data[k].name
                data_items == pipeline.collected_data[k].items
            IN /\ Reports(pipeline.summary.bronze_layer_summary, source, data_items,
                          Len(data_items))
               /\ Reports(pipeline.summary.silver_layer_summary, source, data_items,
                          Len(data_items))
               /\ Reports(pipeline.summary.gold_layer_summary, source, data_items,
                          ValidCount(source, data_items))
        /\ \A g \in DOMAIN storage.analytics_data :
            /\ Cardinality(SilverOf(storage.analytics_data[g])) = 1
            /\ \A k \in SilverOf(storage.analytics_data[g]) :
                storage.processed_data[k].validation_status = "valid"

\* a run without failing writes in which a source has a valid and an invalid item
C6_Witness ==
    /\ RunOver
    /\ pipeline.write_failures = {}
    /\ \E k \in DOMAIN pipeline.collected_data :
        /\ Len(pipeline.collected_data[k].items) = 2
        /\ ValidCount(pipeline.collected_data[k].name, pipeline.collected_data[k].items) = 1
        /\ CountsOf(pipeline.summary.gold_layer_summary, pipeline.collected_data[k].name) = {1}
        /\ CountsOf(pipeline.summary.silver_layer_summary, pipeline.collected_data[k].name) = {2}

(***************************************************************************)
(* C7: a tier write that raises for one item does not abort the run: every *)
(* other item of the sources processed so far, the later items of the same *)
(* source included, is taken through Bronze, Validate, Silver and (if      *)
(* valid) Gold in that order, and the run goes on to return its summary    *)
(* instead of raising.                                                     *)
(***************************************************************************)
StepsOf(source, id) ==
    LET steps == SelectSeq(pipeline.log, LAMBDA e : e.source = source /\ e.id = id)
    IN [k \in DOMAIN steps |-> steps[k].op]
ExpectedSteps(source, item) ==
    IF ValidateData(source, item).is_valid
    THEN <<"bronze", "validate", "silver", "gold">>
    ELSE <<"bronze", "validate", "silver">>
OwnWriteRaised(source, item) ==
    \E f \in pipeline.write_failures : f.source = source /\ f.id = item.id
SourcesDone ==
    {k \in DOMAIN pipeline.collected_data : k < pipeline.position}

C7_FailedWriteDoesNotAbort ==
    pipeline.write_failures # {} =>
        /\ pipeline.pc \in {"processing", "returned"}
        /\ RunOver => /\ pipeline.summary.pipeline_status = "completed"
                      /\ SourcesDone = DOMAIN pipeline.collected_data
        /\ \A k \in SourcesDone :
            \A i \in DOMAIN pipeline.collected_data[k].items :
                LET source == pipeline.collected_data[k].name
                    item == pipeline.collected_data[k].items[i]
                IN ~OwnWriteRaised(source, item)
                        => StepsOf(source, item.id) = ExpectedSteps(source, item)

\* the write of the first of a source's two items raised, the run returned,
\* and another source had an item too
C7_Witness ==
    /\ RunOver
    /\ \E f \in pipeline.write_failures, k \in DOMAIN pipeline.collected_data :
        /\ pipeline.collected_data[k].name = f.source
        /\ Len(pipeline.collected_data[k].items) = 2
        /\ f.id = pipeline.collected_data[k].items[1].id
        /\ Len(StepsOf(f.source, pipeline.collected_data[k].items[2].id)) >= 3
        /\ \E k2 \in DOMAIN pipeline.collected_data :
            k2 > k /\ pipeline.collected_data[k2].items # <<>>

(***************************************************************************)
(* C8: if every source's collection fails, run_collection_pipeline returns *)
(* a summary (it does not raise) that shows zero items in every tier and   *)
(* lists every failed source as failed.                                    *)
(***************************************************************************)
AllSourcesFailed ==
    /\ Registered # {}
    /\ \A s \in Registered : orch.task_results[s].kind = "exception"
ZeroItems(layer_summary) == \A k \in DOMAIN layer_summary : layer_summary[k].count = 0
ListedAsFailed(s) ==
    \E k \in DOMAIN pipeline.summary.errors : pipeline.summary.errors[k].source = s

C8_AllFailedSummary ==
    (pipeline.pc \in {"returned", "raised"} /\ AllSourcesFailed) =>
        /\ RunOver
        /\ ZeroItems(pipeline.summary.bronze_layer_summary)
        /\ ZeroItems(pipeline.summary.silver_layer_summary)
        /\ ZeroItems(pipeline.summary.gold_layer_summary)
        /\ \A s \in Registered : ListedAsFailed(s)

(***************************************************************************)
(* C11: health_check never raises: it makes one collect_data call (limit   *)
(* 1) and returns true iff that call did not raise, false otherwise; and   *)
(* collection_count, error_count and last_collection are as before it.     *)
(***************************************************************************)
C11_HealthCheck ==
    \A s \in callers :
        col[s].pc = "health_checked" =>
            /\ col[s].health.status \in {"healthy", "unhealthy"}
            /\ col[s].health.collect_data_calls = 1
            /\ col[s].health.status = "healthy" <=> ~col[s].health.collect_raised
            /\ Stats(col[s]) = col[s].health.before

\* a health check whose collect_data call raised, on a collector that has
\* collected before and has failed before
C11_Witness ==
    \E s \in callers :
        /\ col[s].pc = "health_checked"
        /\ col[s].health.collect_raised
        /\ col[s].health.status = "unhealthy"
        /\ col[s].collection_count >= 1
        /\ col[s].error_count >= 1

(***************************************************************************)
(* C12: if one source's unit of work never finishes, the collect-all call  *)
(* still returns (with that source treated as failed and the others'       *)
(* results unaffected).                                                    *)
(***************************************************************************)
C12_ReturnsDespiteHang == (orch.hung # {}) ~> (orch.pc = "returned")

(***************************************************************************)
(* C13: for every source kind, validating an item that has none of that    *)
(* kind's required fields yields quality_score exactly 0.0 and is_valid    *)
(* false, whatever optional fields the item carries.                       *)
(***************************************************************************)
C13_NoRequiredFieldsScoreZero ==
    (/\ client.fn = "validate_data"
     /\ client.result.kind = "returned"
     /\ client.item.present \cap RequiredFields(client.source) = {})
    => /\ client.result.value.quality_score = 0
       /\ ~client.result.value.is_valid

(***************************************************************************)
(* C14: store_bronze_data performs no deduplication: two calls with items  *)
(* that carry the same external id create two Bronze records and return    *)
(* two distinct bronze ids.                                                *)
(***************************************************************************)
BronzeRows(bronze_id) ==
    {k \in DOMAIN storage.raw_data : storage.raw_data[k].id = bronze_id}
SameItem(a, b) == a.source = b.source /\ a.external_id = b.external_id

C14_NoDeduplication ==
    client.fn = "store_bronze_data" =>
        /\ Len(storage.raw_data) = Len(client.returned)
        /\ \A i, j \in DOMAIN client.returned :
            (i < j /\ client.returned[i].external_id = client.returned[j].external_id)
                => /\ client.returned[i].bronze_id # client.returned[j].bronze_id
                   /\ Cardinality(BronzeRows(client.returned[i].bronze_id)) = 1
                   /\ Cardinality(BronzeRows(client.returned[j].bronze_id)) = 1

\* two calls with the same source and external id have returned
C14_Witness ==
    /\ client.fn = "store_bronze_data"
    /\ \E i, j \in DOMAIN client.returned :
        /\ i < j
        /\ SameItem(client.returned[i], client.returned[j])
        /\ client.returned[i].bronze_id # client.returned[j].bronze_id

(***************************************************************************)
(* C15: for any config map, also one that omits registered sources,        *)
(* collect_all_data launches exactly one collect_with_retry per source     *)
(* that is both registered and configured, maps each such source to the    *)
(* outcome of its own collector, and gives no key to any other source.     *)
(***************************************************************************)
Configured == Registered \cap EffectiveConfig(collection_config)
OwnOutcome(s) ==
    IF orch.task_results[s].kind = "exception" THEN <<>> ELSE orch.task_results[s].items

C15_OwnOutcomePerConfiguredSource ==
    GatherOver =>
        /\ {orch.tasks[k] : k \in DOMAIN orch.tasks} = Configured
        /\ Len(orch.tasks) = Cardinality(Configured)
        /\ orch.started = Configured
        /\ orch.pc = "returned"
        /\ \A s \in Configured : ResultOf(s) = {OwnOutcome(s)}
        /\ \A k \in DOMAIN orch.results : orch.results[k].name \in Configured

(***************************************************************************)
(* C16: in collect_with_retry every attempt is preceded by a rate-limiter  *)
(* admission for the collector's source: a collector never has made more   *)
(* collect_data calls in a collect_with_retry call than its source's       *)
(* limiter has admitted.                                                   *)
(***************************************************************************)
C16_AdmissionBeforeEachAttempt ==
    \A s \in callers : col[s].calls <= Len(admitted[s])

(***************************************************************************)
(* C17: every collection attempt is followed by one outcome record of the  *)
(* source's limiter, record_success if it succeeded and record_failure if  *)
(* it raised: in a collector's first collect_with_retry call              *)
(* consecutive_failures is the number of failed attempts so far, and 0     *)
(* after the attempt that succeeded.                                       *)
(***************************************************************************)
FailedAttempts(c) == Len(c.sleeps) + (IF c.pc = "raised" THEN 1 ELSE 0)

C17_OutcomeRecordedPerAttempt ==
    \A s \in callers :
        (/\ col[s].calls_done = 0
         /\ col[s].calls >= 1
         /\ col[s].pc \in {"backoff", "raised", "returned"}) =>
            /\ limiters[s].consecutive_failures
                    = IF col[s].pc = "returned" THEN 0 ELSE FailedAttempts(col[s])
            /\ hist[s].last_outcome
                    = IF col[s].pc = "returned" THEN "success" ELSE "failure"

(***************************************************************************)
(* C18: a tier write that fails for an item during a pipeline run is       *)
(* appended to the run's error list: once the run has returned, the errors *)
(* list of its summary is non-empty if a write of any item raised.         *)
(***************************************************************************)
C18_FailedWriteInErrors ==
    (RunOver /\ pipeline.write_failures # {}) => pipeline.summary.errors # <<>>

(***************************************************************************)
(* C19: with zero recorded failures, the delay applied by wait_if_needed   *)
(* is 0 if no window is at capacity, and otherwise the maximum, over only  *)
(* the windows at capacity, of the time until the window's oldest entry    *)
(* expires: a call that sleeps with zero failures sleeps for exactly that  *)
(* maximum, computed on the pruned windows at the time read on entry.      *)
(***************************************************************************)
AtCapacityWait(window, cap, current_time, span) ==
    IF Len(window) >= cap THEN OldestWait(window, current_time, span) ELSE 0

AtCapacityDelay(l, cfg, current_time) ==
    Max(Max(AtCapacityWait(l.minute, cfg.requests_per_minute, current_time, MinuteSpan),
            AtCapacityWait(l.hour, cfg.requests_per_hour, current_time, HourSpan)),
        AtCapacityWait(l.day, cfg.requests_per_day, current_time, DaySpan))

C19_DelayFromFullWindowsOnly ==
    \A api \in callers :
        (sleeping[api].held /\ limiters[api].consecutive_failures = 0) =>
            sleeping[api].delay
                = AtCapacityDelay(limiters[api], RateLimitConfig(api), sleeping[api].current_time)

(***************************************************************************)
(* C20: right after the pruning step of every wait_if_needed call, each of *)
(* the minute, hour and day windows of the limiter holds at most its       *)
(* configured cap of timestamps.                                           *)
(***************************************************************************)
WithinCaps(l, cfg) ==
    /\ Len(l.minute) <= cfg.requests_per_minute
    /\ Len(l.hour) <= cfg.requests_per_hour
    /\ Len(l.day) <= cfg.requests_per_day

C20_PrunedWindowsWithinCaps ==
    [][\A api \in callers :
            WaitIfNeeded(api) => WithinCaps(CleanAll(limiters[api], now), RateLimitConfig(api))]_vars

\* a call that follows two admitted ones has pruned its windows and sleeps
\* with the minute window exactly at its cap
C20_Witness ==
    \E api \in callers :
        /\ sleeping[api].held
        /\ Len(admitted[api]) >= 2
        /\ Len(limiters[api].minute) = RateLimitConfig(api).requests_per_minute

(***************************************************************************)
(* C21: rate-limit state and locks are per source. While a wait_if_needed  *)
(* call for one source is blocked sleeping, wait_for_api, record_success   *)
(* and record_failure for any other source whose lock is free can complete *)
(* (up to the bounds of the model), and no call for one source changes     *)
(* another source's windows or failure count.                              *)
(***************************************************************************)
CallFor(api) ==
    WaitIfNeeded(api) \/ WaitReturn(api) \/ RecordSuccess(api) \/ RecordFailure(api)

OthersNotBlocked ==
    \A a, b \in callers :
        (a # b /\ sleeping[a].held /\ ~sleeping[b].held) =>
            /\ ENABLED RecordSuccess(b)
            /\ limiters[b].consecutive_failures < MaxFailures => ENABLED RecordFailure(b)
            /\ TotalCalls < MaxCalls => ENABLED WaitIfNeeded(b)

C21_PerSourceStateAndLocks ==
    /\ []OthersNotBlocked
    /\ [][\A a, b \in callers : (a # b /\ CallFor(a)) => limiters'[b] = limiters[b]]_vars

\* a wait_if_needed call for one source was admitted, and a failure was
\* recorded for it, after the call of another source began the sleep it is
\* still in
C21_Witness ==
    \E a, b \in callers :
        /\ a # b
        /\ sleeping[a].held
        /\ admitted[b] # <<>>
        /\ admitted[b][Len(admitted[b])] > sleeping[a].current_time
        /\ limiters[b].consecutive_failures > 0

(***************************************************************************)
(* C22: each collect_with_retry call that reaches a terminal outcome       *)
(* updates the collector's stats exactly once: the step that ends the call *)
(* with a list increments collection_count by 1, the step that ends it     *)
(* with exhausted retries increments error_count by 1, both set            *)
(* last_collection to the time of completion, no other step changes a      *)
(* counter, and neither counter ever decreases.                            *)
(***************************************************************************)
Succeeds(s) == col[s].pc # "returned" /\ col'[s].pc = "returned" /\ col'[s].result.kind = "list"

Exhausts(s) == col[s].pc # "raised" /\ col'[s].pc = "raised"

C22_StatsUpdatedOncePerOutcome ==
    [][\A s \in callers :
        /\ col'[s].collection_count
                = col[s].collection_count + (IF Succeeds(s) THEN 1 ELSE 0)
        /\ col'[s].error_count = col[s].error_count + (IF Exhausts(s) THEN 1 ELSE 0)
        /\ (Succeeds(s) \/ Exhausts(s)) => col'[s].last_collection = now']_vars

C24_ConnectionPerOperation ==
    client.fn = "connection_pool" =>
        /\ client.pool.used = IF client.operation = NoOperation THEN 0 ELSE 1
        /\ ~client.pool.exhausted
        /\ client.operation # NoOperation => client.operation.conn

\* between two operations, after a write that committed and a write that
\* raised
C24_Witness ==
    /\ client.fn = "connection_pool"
    /\ client.operation = NoOperation
    /\ \E i, j \in DOMAIN client.log :
        client.log[i].outcome = "committed" /\ client.log[j].outcome = "raised"
    /\ client.pool.used = 0

(***************************************************************************)
(* C25: _check_timeliness is the step function of item age: at most 1 hour *)
(* gives 1.0, at most 24 hours 0.9, at most 168 hours 0.7, anything older  *)
(* 0.5, and a missing or unparseable timestamp gives 0.0 (scores in units  *)
(* of 1/ScoreScale).                                                       *)
(***************************************************************************)
ClaimedTimeliness(stamp) ==
    CASE stamp \in {"absent", "unparseable"} -> 0
      [] stamp = "hour" -> ScoreScale
      [] stamp = "day" -> (9 * ScoreScale) \div 10
      [] stamp = "week" -> (7 * ScoreScale) \div 10
      [] stamp = "older" -> (5 * ScoreScale) \div 10

C25_TimelinessStepFunction ==
    (client.fn = "validate_data" /\ client.result.kind = "returned") =>
        client.result.value.scores[4] = ClaimedTimeliness(client.item.stamp)

(***************************************************************************)
(* C26: collect_technology_data(limit) and collect_trending_data(limit)    *)
(* request from each registered source max(floor(limit / number of         *)
(* registered sources), 10) items, and otherwise only build the config and *)
(* delegate to collect_all_data: one task per registered source.           *)
(***************************************************************************)
C26_LimitSplitOverRegistered ==
    (client.fn \in TopicOperations /\ client.pc = "delegated") =>
        /\ \A s \in Registered :
            /\ s \in collection_config.keys
            /\ collection_config.limits[s] = Max(client.limit \div Len(collectors), 10)
        /\ orch.pc = "idle" => collectors = <<>>
        /\ orch.pc = "gathering" => orch.tasks = collectors

(***************************************************************************)
(* C27: after any sequence of successful and failed collect_with_retry     *)
(* calls, the success_rate reported by get_collection_stats is between 0   *)
(* and 1 inclusive.                                                        *)
(***************************************************************************)
C27_SuccessRateInUnitInterval ==
    \A s \in callers :
        col[s].pc \in {"idle", "returned", "raised"} =>
            /\ 0 <= SuccessRate(col[s]).num
            /\ SuccessRate(col[s]).num <= SuccessRate(col[s]).den

(***************************************************************************)
(* C28: every collect_with_retry call, for any max_retries including 0,    *)
(* ends either by returning a list of items (possibly empty) or by raising *)
(* an error; it never returns without a result and without having called   *)
(* collect_data.                                                           *)
(***************************************************************************)
C28_ListOrError ==
    \A s \in callers :
        /\ col[s].pc = "returned" => col[s].result.kind = "list" /\ col[s].calls >= 1
        /\ col[s].pc = "raised" => col[s].result.kind = "exception"

(***************************************************************************)
(* C29: the counters in a run's summary describe that run only:            *)
(* total_items_processed, successful_stores and failed_stores equal the    *)
(* number of items fully processed, valid and invalid in that run, also    *)
(* when the same pipeline instance has completed earlier runs, and         *)
(* successful_stores + failed_stores = total_items_processed.              *)
(***************************************************************************)
FullyProcessed(k) ==
    SelectSeq(pipeline.collected_data[k].items,
              LAMBDA item : ~OwnWriteRaised(pipeline.collected_data[k].name, item))

RunProcessed ==
    SeqSum([k \in DOMAIN pipeline.collected_data |-> Len(FullyProcessed(k))])

RunValid ==
    SeqSum([k \in DOMAIN pipeline.collected_data |->
                ValidCount(pipeline.collected_data[k].name, FullyProcessed(k))])

C29_CountersOfThisRun ==
    RunOver =>
        /\ pipeline.summary.total_items_processed = RunProcessed
        /\ pipeline.summary.successful_stores = RunValid
        /\ pipeline.summary.failed_stores = RunProcessed - RunValid
        /\ pipeline.summary.successful_stores + pipeline.summary.failed_stores
                = pipeline.summary.total_items_processed

(***************************************************************************)
(* C30: under repeated process_raw_data(limit) calls with no new rows and  *)
(* no database errors, every unprocessed raw row of a known source is      *)
(* eventually cleaned and marked processed, whatever number of             *)
(* unknown-source rows (which are skipped and stay unprocessed) is there.  *)
(***************************************************************************)
Cleaned(row) ==
    /\ row.processed
    /\ \E k \in DOMAIN storage.clean_posts : storage.clean_posts[k].raw_id = row.id

AllKnownCleaned ==
    \A k \in DOMAIN storage.raw_posts :
        storage.raw_posts[k].source \in KnownSources => Cleaned(storage.raw_posts[k])

C30_KnownRowsEventuallyCleaned == <>AllKnownCleaned

====
